---- MODULE Spec2Model ----
(***************************************************************************)
(* Chat-RAG-Assistant frontend: the reconnecting WebSocket transport       *)
(* (WebSocketService), the chat store (useChatStore) and the handlers of   *)
(* the ChatInterface / ConversationList / Sidebar components that drive    *)
(* them.  Everything runs on one browser event loop: every action below    *)
(* is one task of that loop (a DOM event, a socket event, a timer, the     *)
(* continuation of an awaited request).                                    *)
(***************************************************************************)
EXTENDS Integers, Sequences, FiniteSets, TLC

VARIABLES
  ws,       \* the WebSocketService singleton: socket, callbacks, reconnectAttempts, sessionId, isConnecting
  socks,    \* the browser's WebSocket objects that are still referenced or still
            \* have an event to deliver: readyState, est (was ever open), sid (session in
            \* its URL), rep (connect() replaced it while it was OPEN)
  timers,   \* pending setTimeout callbacks of attemptReconnect
  store,    \* useChatStore state
  ui,       \* ChatInterface component: mounted, connectionStatus (useState)
  rest,     \* how many fallback POST /chat/send requests await their response
  hist,     \* getConversationHistory requests awaiting their response
  outbox,   \* what the last task put out: frames given to socket.send, requests
            \* posted, parse errors the receive path logged to the console
  now,      \* the last value Date.now() returned
  pc        \* position inside the running task: idle, or a step that must follow immediately

vars == <<ws, socks, timers, store, ui, rest, hist, outbox, now, pc>>

----------------------------------------------------------------------------
(* Bounds of the model *)

MaxSockets  == 2   \* WebSocket objects alive at one time
MaxTimers   == 2   \* reconnect timers pending at one time
MaxSessions == 2   \* session ids generated in one run
MaxMessages == 2   \* length of store.messages
MaxConv     == 2   \* conversation ids 1..MaxConv
MaxServerId == 1   \* server-assigned message ids 1..MaxServerId
MaxTicks    == 1   \* how far Date.now() advances past its first value
MaxRest     == 1   \* fallback requests in flight
MaxHist     == 1   \* history requests in flight

(* Program constants *)

maxReconnectAttempts == 5
reconnectDelay       == 1000
NormalClosure        == 1000

\* Close codes a close event can carry: those of a Close frame (normal closure;
\* 1001, going away) and 1006 (the connection failed or was lost)
AbnormalClosure == NormalClosure + 6
CleanCodes      == {NormalClosure, NormalClosure + 1}
CloseCodes      == CleanCodes \cup {AbnormalClosure}

----------------------------------------------------------------------------
(* Values *)

Null      == 0          \* null socket / null sessionId
NoConv    == 0          \* currentConversation undefined; also a missing or zero conversation_id
Undefined == "undefined" \* store.error undefined

ConvIds   == 1..MaxConv
ServerIds == 1..MaxServerId
Epoch     == MaxServerId + 1          \* Date.now() values lie above every server-assigned id
Clock     == Epoch..(Epoch + MaxTicks)

\* a || b on numbers, where 0 and undefined are falsy
OrElse(a, b) == IF a # 0 THEN a ELSE b

NoCallbacks == [kind |-> "none", cc |-> NoConv]

\* String.prototype.trim on a string held as a sequence of characters
RECURSIVE trimStart(_)
trimStart(s) == IF s # <<>> /\ Head(s) = " " THEN trimStart(Tail(s)) ELSE s
RECURSIVE trimEnd(_)
trimEnd(s) == IF s # <<>> /\ s[Len(s)] = " " THEN trimEnd(SubSeq(s, 1, Len(s) - 1)) ELSE s
trim(s) == trimEnd(trimStart(s))

\* What the user may type into the input area
Inputs == { <<>>, <<" ">>, <<" ", "y">> }

----------------------------------------------------------------------------
(* useChatStore actions: each maps a store state to the next one *)

addMessage(st, message) == [st EXCEPT !.messages = Append(@, message)]

setMessages(st, messages) == [st EXCEPT !.messages = messages]

\* A conversation is held by its id, the only field the handlers read; merging
\* `updates` into the conversation with that id keeps the id.  The conversations
\* list of the sidebar is not part of the model.
updateConversation(st, conversationId, updates) ==
  [st EXCEPT !.currentConversation =
     IF @ # NoConv /\ @ = conversationId THEN updates ELSE @]

setCurrentConversation(st, conversation) ==
  [st EXCEPT !.currentConversation = conversation, !.messages = <<>>]

setLoading(st, b) == [st EXCEPT !.isLoading = b]
setTyping(st, b)  == [st EXCEPT !.isTyping = b]
setError(st, e)   == [st EXCEPT !.error = e]

getCurrentMessages(st) ==
  IF st.currentConversation = NoConv THEN <<>>
  ELSE SelectSeq(st.messages, LAMBDA m : m.conversation_id = st.currentConversation)

startNewConversation(st) ==
  [st EXCEPT !.currentConversation = NoConv, !.messages = <<>>, !.sessionId = @ + 1]

----------------------------------------------------------------------------
(* The callback bags handed to connect.  "mount" is the bag built by the     *)
(* effect of ChatInterface, whose closures read the currentConversation of   *)
(* the render the effect ran in (cb.cc); "retry" is the bag of handleRetry;  *)
(* "none" is {}.  Each callback maps the world S (ws, socks, timers, store,  *)
(* ui, outbox) to the next one; a callback the bag lacks does nothing.       *)

mountCallbacks(st) == [kind |-> "mount", cc |-> st.currentConversation]
retryCallbacks     == [kind |-> "retry", cc |-> NoConv]

setConnectionStatus(S, status) == [S EXCEPT !.ui.connectionStatus = status]

onConnect(S) ==
  CASE S.ws.callbacks.kind = "mount" ->
         [setConnectionStatus(S, "connected") EXCEPT !.store = setError(@, Undefined)]
    [] S.ws.callbacks.kind = "retry" -> setConnectionStatus(S, "connected")
    [] OTHER -> S

onDisconnect(S) ==
  IF S.ws.callbacks.kind \in {"mount", "retry"}
  THEN setConnectionStatus(S, "disconnected")
  ELSE S

onMessage(S, message) ==
  IF S.ws.callbacks.kind = "mount"
  THEN LET conversationId == OrElse(S.ws.callbacks.cc,
                               OrElse(message.conversation_id, 1))
           correctedMessage == [message EXCEPT !.conversation_id = conversationId]
       IN [S EXCEPT !.store =
             setLoading(setTyping(addMessage(@, correctedMessage), FALSE), FALSE)]
  ELSE S

onTypingStart(S) ==
  IF S.ws.callbacks.kind = "mount" THEN [S EXCEPT !.store = setTyping(@, TRUE)] ELSE S

onTypingStop(S) ==
  IF S.ws.callbacks.kind = "mount" THEN [S EXCEPT !.store = setTyping(@, FALSE)] ELSE S

onError(S, error) ==
  CASE S.ws.callbacks.kind = "mount" ->
         [S EXCEPT !.store = setLoading(setTyping(setError(@, error), FALSE), FALSE)]
    [] S.ws.callbacks.kind = "retry" -> [S EXCEPT !.store = setError(@, error)]
    [] OTHER -> S

onConversationUpdate(S, conversation) ==
  IF S.ws.callbacks.kind = "mount"
  THEN LET st1 == updateConversation(S.store, conversation, conversation)
       IN [S EXCEPT !.store = IF S.ws.callbacks.cc = NoConv
                              THEN setCurrentConversation(st1, conversation)
                              ELSE st1]
  ELSE S

----------------------------------------------------------------------------
(* The browser's WebSocket objects and timers *)

\* A slot of socks that holds no object
NoSocket == [readyState |-> "NONE", est |-> FALSE, sid |-> Null, rep |-> FALSE]

\* new WebSocket(url): the url carries the session id
newSocket(sessionId) ==
  [readyState |-> "CONNECTING", est |-> FALSE, sid |-> sessionId, rep |-> FALSE]

\* The slot a new object is put in
freeSlot(sk) == CHOOSE s \in DOMAIN sk :
                  /\ sk[s].readyState = "NONE"
                  /\ \A r \in DOMAIN sk : r < s => sk[r].readyState # "NONE"
hasFreeSlot(sk) == \E s \in DOMAIN sk : sk[s].readyState = "NONE"

\* WebSocket.close(): a socket that is CONNECTING or OPEN starts closing (its close
\* event comes later, in a task of its own); otherwise nothing happens
close(sk, s) ==
  IF sk[s].readyState \in {"CONNECTING", "OPEN"}
  THEN [sk EXCEPT ![s].readyState = "CLOSING"]
  ELSE sk

\* A pending timer: its delay, and two history marks the timer callback never
\* reads: disc (disconnect() was called while it was pending) and conn (the
\* socket created by the latest connect call made while it was pending)
newTimer(delay) == [delay |-> delay, disc |-> FALSE, conn |-> Null]

RECURSIVE pow2(_)
pow2(n) == IF n <= 0 THEN 1 ELSE 2 * pow2(n - 1)

----------------------------------------------------------------------------
(* WebSocketService *)

isConnected(S) ==
  S.ws.socket # Null /\ S.socks[S.ws.socket].readyState = "OPEN"

getConnectionState(S) ==
  IF S.ws.socket = Null THEN "disconnected"
  ELSE CASE S.socks[S.ws.socket].readyState = "CONNECTING" -> "connecting"
         [] S.socks[S.ws.socket].readyState = "OPEN"       -> "connected"
         [] S.socks[S.ws.socket].readyState = "CLOSING"    -> "closing"
         [] OTHER                                          -> "disconnected"

connect(S, sessionId, callbacks) ==
  IF S.ws.isConnecting THEN S
  ELSE LET old == S.ws.socket
           sk0 == IF old # Null /\ S.socks[old].readyState # "CLOSED"
                  THEN close(S.socks, old)
                  ELSE S.socks
           \* history mark, read by no handler
           sk1 == IF old # Null /\ S.socks[old].readyState = "OPEN"
                  THEN [sk0 EXCEPT ![old].rep = TRUE]
                  ELSE sk0
           new == freeSlot(sk1)
       IN [S EXCEPT
             !.socks  = [sk1 EXCEPT ![new] = newSocket(sessionId)],
             !.timers = [i \in DOMAIN @ |-> [@[i] EXCEPT !.conn = new]],
             !.ws     = [@ EXCEPT !.sessionId = sessionId,
                                  !.callbacks = callbacks,
                                  !.isConnecting = TRUE,
                                  !.socket = new]]

\* Mutant of disconnect: the reconnect-attempt counter is not reset
disconnect_keepsCounter(S) ==
  [S EXCEPT
     !.socks  = IF S.ws.socket # Null THEN close(@, S.ws.socket) ELSE @,
     !.timers = [i \in DOMAIN @ |-> [@[i] EXCEPT !.disc = TRUE]],
     !.ws     = [@ EXCEPT !.socket = Null,
                          !.sessionId = Null,
                          !.callbacks = NoCallbacks,
                          !.isConnecting = FALSE]]

disconnect(S) ==
  [S EXCEPT
     !.socks  = IF S.ws.socket # Null THEN close(@, S.ws.socket) ELSE @,
     !.timers = [i \in DOMAIN @ |-> [@[i] EXCEPT !.disc = TRUE]],
     !.ws     = [@ EXCEPT !.socket = Null,
                          !.sessionId = Null,
                          !.callbacks = NoCallbacks,
                          !.reconnectAttempts = 0,
                          !.isConnecting = FALSE]]

\* Mutant of attemptReconnect: the delay is computed from the incremented
\* counter without the "- 1"
attemptReconnect_delayOffByOne(S) ==
  IF S.ws.sessionId = Null THEN S
  ELSE LET attempts == S.ws.reconnectAttempts + 1
           delay    == reconnectDelay * pow2(attempts)
       IN [S EXCEPT !.ws.reconnectAttempts = attempts,
                    !.timers = Append(@, newTimer(delay))]

attemptReconnect(S) ==
  IF S.ws.sessionId = Null THEN S
  ELSE LET attempts == S.ws.reconnectAttempts + 1
           delay    == reconnectDelay * pow2(attempts - 1)
       IN [S EXCEPT !.ws.reconnectAttempts = attempts,
                    !.timers = Append(@, newTimer(delay))]

\* the setTimeout callback of attemptReconnect
reconnectTimeout(S) ==
  IF S.ws.sessionId # Null THEN connect(S, S.ws.sessionId, S.ws.callbacks) ELSE S

\* Mutant of onopen: the reconnect-attempt counter is not reset
onopen_keepsCounter(S) ==
  onConnect([S EXCEPT !.ws.isConnecting = FALSE])

\* socket.onopen
onopen(S) ==
  onConnect([S EXCEPT !.ws.reconnectAttempts = 0, !.ws.isConnecting = FALSE])

\* Mutant of onclose: the reconnect-attempt counter is not compared with the limit
onclose_noLimit(S, code) ==
  LET S1 == onDisconnect([S EXCEPT !.ws.isConnecting = FALSE])
  IN IF code # NormalClosure
     THEN attemptReconnect(S1)
     ELSE S1

\* Mutant of onclose: the close code is not looked at
onclose_anyCode(S, code) ==
  LET S1 == onDisconnect([S EXCEPT !.ws.isConnecting = FALSE])
  IN IF S1.ws.reconnectAttempts < maxReconnectAttempts
     THEN attemptReconnect(S1)
     ELSE S1

\* socket.onclose
onclose(S, code) ==
  LET S1 == onDisconnect([S EXCEPT !.ws.isConnecting = FALSE])
  IN IF code # NormalClosure /\ S1.ws.reconnectAttempts < maxReconnectAttempts
     THEN attemptReconnect(S1)
     ELSE S1

\* Mutant of onerror: the error event drives the reconnection itself
onerror_reconnects(S) ==
  attemptReconnect(
    onError([S EXCEPT !.ws.isConnecting = FALSE], "WebSocket connection error"))

\* socket.onerror
onerror(S) ==
  onError([S EXCEPT !.ws.isConnecting = FALSE], "WebSocket connection error")

----------------------------------------------------------------------------
(* Frames on the wire, server to client *)

NoMessage    == [kind |-> "absent", id |-> 0, conversation_id |-> NoConv]
EmptyMessage == [kind |-> "empty",  id |-> 0, conversation_id |-> NoConv]
TextMessage  == [kind |-> "string", id |-> 0, conversation_id |-> NoConv]
ObjectMessages ==
  { [kind |-> "object", id |-> i, conversation_id |-> c] : i \in ServerIds, c \in 0..MaxConv }

\* The text of a frame: json says whether JSON.parse throws ("invalid"), yields
\* null ("null") or yields an object whose fields are the remaining ones
\* (type "" = no type tag, conversation NoConv = no conversation field)
Frame(json, type, message, conversation, status) ==
  [json |-> json, type |-> type, message |-> message,
   conversation |-> conversation, status |-> status]

ChatResponseFrames ==
  { Frame("object", "chat_response", m, c, "") :
      m \in {NoMessage, EmptyMessage, TextMessage} \cup ObjectMessages, c \in 0..MaxConv }
TypingFrames ==
  { Frame("object", "typing", NoMessage, NoConv, s) : s \in {"started", "stopped", "paused"} }
ErrorFrames ==
  { Frame("object", "error", m, NoConv, "") : m \in {TextMessage, NoMessage} }
MalformedFrames ==
  { Frame("invalid", "", NoMessage, NoConv, ""),
    Frame("null", "", NoMessage, NoConv, ""),
    Frame("object", "", NoMessage, NoConv, ""),
    Frame("object", "", TextMessage, NoConv, "started") }
OtherFrames == { Frame("object", "chat_message", TextMessage, NoConv, "") }

Frames == ChatResponseFrames \cup TypingFrames \cup ErrorFrames
            \cup MalformedFrames \cup OtherFrames

\* The Message object a frame or a response carries, as the store keeps it
AssistantContent == <<"o", "k">>
asMessage(m) ==
  [id |-> m.id, conversation_id |-> m.conversation_id,
   content |-> AssistantContent, role |-> "assistant"]

\* Mutant of handleMessage: the last branch is a plain else, so every frame that
\* is neither a chat_response nor a typing frame is reported as an error
handleMessage_elseIsError(S, data) ==
  CASE data.type = "chat_response" ->
         LET S1 == IF data.message.kind = "object"
                   THEN onMessage(S, asMessage(data.message))
                   ELSE S
         IN IF data.conversation # NoConv
            THEN onConversationUpdate(S1, data.conversation)
            ELSE S1
    [] data.type = "typing" ->
         CASE data.status = "started" -> onTypingStart(S)
           [] data.status = "stopped" -> onTypingStop(S)
           [] OTHER -> S
    [] OTHER ->
         onError(S, IF data.message.kind = "string"
                    THEN "Server error text"
                    ELSE "Unknown error occurred")

\* Mutant of handleMessage: the conversation of a chat_response is passed on
\* before its message
handleMessage_conversationFirst(S, data) ==
  CASE data.type = "chat_response" ->
         LET S1 == IF data.conversation # NoConv
                   THEN onConversationUpdate(S, data.conversation)
                   ELSE S
         IN IF data.message.kind = "object"
            THEN onMessage(S1, asMessage(data.message))
            ELSE S1
    [] data.type = "typing" ->
         CASE data.status = "started" -> onTypingStart(S)
           [] data.status = "stopped" -> onTypingStop(S)
           [] OTHER -> S
    [] data.type = "error" ->
         onError(S, IF data.message.kind = "string"
                    THEN "Server error text"
                    ELSE "Unknown error occurred")
    [] OTHER -> S

handleMessage(S, data) ==
  CASE data.type = "chat_response" ->
         LET S1 == IF data.message.kind = "object"
                   THEN onMessage(S, asMessage(data.message))
                   ELSE S
         IN IF data.conversation # NoConv
            THEN onConversationUpdate(S1, data.conversation)
            ELSE S1
    [] data.type = "typing" ->
         CASE data.status = "started" -> onTypingStart(S)
           [] data.status = "stopped" -> onTypingStop(S)
           [] OTHER -> S
    [] data.type = "error" ->
         onError(S, IF data.message.kind = "string"
                    THEN "Server error text"
                    ELSE "Unknown error occurred")
    [] OTHER -> S

\* The console.error of the catch block of socket.onmessage
ParseErrorLogged ==
  [via |-> "console", sock |-> Null, message |-> <<>>,
   conversation_id |-> NoConv, session_id |-> Null, use_rag |-> FALSE]

\* socket.onmessage: JSON.parse throws on invalid text and handleMessage throws on
\* null; both are caught and logged
onmessage(S, frame) ==
  IF frame.json = "object"
  THEN handleMessage(S, frame)
  ELSE [S EXCEPT !.outbox = Append(@, ParseErrorLogged)]

\* Mutant of sendMessage: the frame is handed over without the readyState test
sendMessage_noGuard(S, message, conversationId) ==
  [threw |-> FALSE,
   S |-> [S EXCEPT !.outbox = Append(@,
            [via |-> "socket", sock |-> S.ws.socket, message |-> message,
             conversation_id |-> conversationId, session_id |-> Null,
             use_rag |-> TRUE])]]

\* Mutant of sendMessage: the payload is built without the conversation id
sendMessage_dropsConversation(S, message, conversationId) ==
  IF S.ws.socket = Null \/ S.socks[S.ws.socket].readyState # "OPEN"
  THEN [threw |-> TRUE, S |-> S]
  ELSE [threw |-> FALSE,
        S |-> [S EXCEPT !.outbox = Append(@,
                 [via |-> "socket", sock |-> S.ws.socket, message |-> message,
                  conversation_id |-> NoConv, session_id |-> Null,
                  use_rag |-> TRUE])]]

\* WebSocketService.sendMessage: threw = the not-connected Error was thrown
sendMessage(S, message, conversationId) ==
  IF S.ws.socket = Null \/ S.socks[S.ws.socket].readyState # "OPEN"
  THEN [threw |-> TRUE, S |-> S]
  ELSE [threw |-> FALSE,
        S |-> [S EXCEPT !.outbox = Append(@,
                 [via |-> "socket", sock |-> S.ws.socket, message |-> message,
                  conversation_id |-> conversationId, session_id |-> Null,
                  use_rag |-> TRUE])]]

----------------------------------------------------------------------------
(* ApiService *)

\* A rejection of a request: response.data.detail, response.data.message and
\* error.message, "" when absent
ApiError(detail, message, emsg) == [detail |-> detail, message |-> message, emsg |-> emsg]

NotConnectedError == ApiError("", "", "WebSocket is not connected")

ApiErrors ==
  { ApiError("Detail from server", "", "Request failed with status code 500"),
    ApiError("", "", "Network Error") }

handleApiError(error) ==
  IF error.detail # "" THEN error.detail
  ELSE IF error.message # "" THEN error.message
  ELSE IF error.emsg # "" THEN error.emsg
  ELSE "An unexpected error occurred"

\* The ChatResponse bodies POST /chat/send may return: a message of the
\* conversation the server filed it under, with or without the conversation
ChatResponses ==
  { [message |-> [kind |-> "object", id |-> i, conversation_id |-> c],
     conversation |-> IF k THEN c ELSE NoConv] :
      i \in ServerIds, c \in ConvIds, k \in BOOLEAN }

\* The message lists GET /chat/conversations/{id}/history may return
HistoryMessage(i, c, role) ==
  [id |-> i, conversation_id |-> c, content |-> AssistantContent, role |-> role]
Histories(c) ==
  { <<>> } \cup { <<HistoryMessage(i, c, "assistant")>> : i \in ServerIds }
    \cup { <<HistoryMessage(p[1], c, "user"), HistoryMessage(p[2], c, "assistant")>> :
             p \in { q \in ServerIds \X ServerIds : q[1] < q[2] } }

----------------------------------------------------------------------------
(* State *)

\* The state a task starts from: nothing put on the network yet
World == [ws |-> ws, socks |-> socks, timers |-> timers,
          store |-> store, ui |-> ui, outbox |-> <<>>]

\* Garbage collection: a CLOSED object that is neither this.socket nor about to
\* deliver its close event (keep) is dropped, and the timers' marks of it too
collect(S, keep) ==
  LET dead == { s \in DOMAIN S.socks :
                  S.socks[s].readyState = "CLOSED" /\ s # S.ws.socket /\ s # keep }
  IN [S EXCEPT
        !.socks  = [s \in DOMAIN @ |-> IF s \in dead THEN NoSocket ELSE @[s]],
        !.timers = [i \in DOMAIN @ |->
                      IF @[i].conn \in dead THEN [@[i] EXCEPT !.conn = Null] ELSE @[i]]]

BecomeKeeping(S, keep) ==
  LET G == collect(S, keep)
  IN /\ ws' = G.ws
     /\ socks' = G.socks
     /\ timers' = G.timers
     /\ store' = G.store
     /\ ui' = G.ui
     /\ outbox' = G.outbox

Become(S) == BecomeKeeping(S, Null)

Idle == [k |-> "idle", s |-> Null, content |-> <<>>, conv |-> NoConv]

RemoveAt(q, i) == SubSeq(q, 1, i - 1) \o SubSeq(q, i + 1, Len(q))

\* The state after the modules are loaded: the service as constructed, the
\* store's initialState with the persisted currentConversation and sessionId
\* restored, ChatInterface not mounted yet
Init ==
  /\ ws = [socket |-> Null, callbacks |-> NoCallbacks, reconnectAttempts |-> 0,
           sessionId |-> Null, isConnecting |-> FALSE]
  /\ socks = [s \in 1..MaxSockets |-> NoSocket]
  /\ timers = <<>>
  /\ store \in { [messages |-> <<>>, currentConversation |-> c, isLoading |-> FALSE,
                   isTyping |-> FALSE, error |-> Undefined, sessionId |-> 1] :
                  c \in {NoConv} \cup ConvIds }
  /\ ui = [mounted |-> FALSE, connectionStatus |-> "disconnected"]
  /\ rest = 0
  /\ hist = <<>>
  /\ outbox = <<>>
  /\ now = Epoch
  /\ pc = Idle

----------------------------------------------------------------------------
(* ChatInterface *)

\* useEffect([sessionId]) body, on mount: connectionStatus starts 'disconnected'
Mount ==
  /\ pc = Idle
  /\ ~ui.mounted
  /\ hasFreeSlot(socks)
  /\ Become(connect([World EXCEPT !.ui = [mounted |-> TRUE,
                                          connectionStatus |-> "disconnected"]],
                    store.sessionId, mountCallbacks(store)))
  /\ UNCHANGED <<rest, hist, now, pc>>

\* useEffect([sessionId]) cleanup, on unmount
Unmount ==
  /\ pc = Idle
  /\ ui.mounted
  /\ Become(disconnect([World EXCEPT !.ui = [mounted |-> FALSE,
                                             connectionStatus |-> "disconnected"]]))
  /\ UNCHANGED <<rest, hist, now, pc>>

\* Sidebar.handleNewChat: startNewConversation changes sessionId, so a mounted
\* ChatInterface runs the effect's cleanup and then the effect again
handleNewChat ==
  /\ pc = Idle
  /\ store.sessionId < MaxSessions
  /\ LET st1 == startNewConversation(store)
         S1  == [World EXCEPT !.store = st1]
     IN IF ui.mounted
        THEN /\ hasFreeSlot(socks)
             /\ Become(connect(disconnect(S1), st1.sessionId, mountCallbacks(st1)))
        ELSE Become(S1)
  /\ UNCHANGED <<rest, hist, now, pc>>

handleRetry ==
  /\ pc = Idle
  /\ ui.mounted
  /\ hasFreeSlot(socks)
  /\ IF ui.connectionStatus = "disconnected"
     THEN Become(connect(World, store.sessionId, retryCallbacks))
     ELSE Become(World)
  /\ UNCHANGED <<rest, hist, now, pc>>

\* The Dismiss button of the error banner
dismissError ==
  /\ pc = Idle
  /\ ui.mounted
  /\ store.error # Undefined
  /\ Become([World EXCEPT !.store = setError(@, Undefined)])
  /\ UNCHANGED <<rest, hist, now, pc>>

\* Mutant of userMessage: the message is never filed under the current conversation
userMessage_unassigned(st, messageContent, t) ==
  [id |-> t, conversation_id |-> 0, content |-> messageContent, role |-> "user"]

\* The Message handleSendMessage creates: t is what Date.now() returns
userMessage(st, messageContent, t) ==
  [id |-> t, conversation_id |-> OrElse(st.currentConversation, 0),
   content |-> messageContent, role |-> "user"]

\* handleSendMessage, up to addMessage(userMessage)
handleSendMessage(messageContent, t) ==
  /\ pc = Idle
  /\ ui.mounted
  /\ IF trim(messageContent) = <<>> \/ store.isLoading
     THEN /\ Become(World)
          /\ UNCHANGED <<now, pc>>
     ELSE /\ Len(store.messages) < MaxMessages
          /\ isConnected(World) \/ rest < MaxRest
          /\ Become([World EXCEPT !.store =
                       addMessage(setError(setLoading(@, TRUE), Undefined),
                                  userMessage(store, messageContent, t))])
          /\ now' = t
          /\ pc' = [Idle EXCEPT !.k = "send", !.content = messageContent,
                                !.conv = store.currentConversation]
  /\ UNCHANGED <<rest, hist>>

\* handleSendMessage, from the isConnected() test to the await or the catch
handleSendMessageDispatch ==
  /\ pc.k = "send"
  /\ IF isConnected(World)
     THEN LET r == sendMessage(World, pc.content, pc.conv)
          IN /\ IF r.threw
                THEN Become([World EXCEPT !.store =
                       setLoading(setError(@, handleApiError(NotConnectedError)), FALSE)])
                ELSE Become(r.S)
             /\ rest' = rest
     ELSE /\ rest' = rest + 1
          /\ Become([World EXCEPT !.outbox = Append(@,
                       [via |-> "post", sock |-> Null, message |-> pc.content,
                        conversation_id |-> pc.conv, session_id |-> store.sessionId,
                        use_rag |-> TRUE])])
  /\ pc' = Idle
  /\ UNCHANGED <<hist, now>>

\* What handleSendMessage does to the store with the response of the fallback
\* request
fallbackReply(st, response) ==
  LET st1 == addMessage(st, asMessage(response.message))
      st2 == IF response.conversation # NoConv
             THEN updateConversation(st1, response.conversation, response.conversation)
             ELSE st1
  IN setLoading(st2, FALSE)

\* Mutant of sendMessageFulfilled: the reply is added a second time
sendMessageFulfilled_addsTwice(response) ==
  /\ pc = Idle
  /\ rest > 0
  /\ Len(store.messages) < MaxMessages
  /\ LET st1 == addMessage(addMessage(store, asMessage(response.message)),
                           asMessage(response.message))
         st2 == IF response.conversation # NoConv
                THEN updateConversation(st1, response.conversation, response.conversation)
                ELSE st1
     IN Become([World EXCEPT !.store = setLoading(st2, FALSE)])
  /\ rest' = rest - 1
  /\ UNCHANGED <<hist, now, pc>>

\* handleSendMessage after the await, the request fulfilled
sendMessageFulfilled(response) ==
  /\ pc = Idle
  /\ rest > 0
  /\ Len(store.messages) < MaxMessages
  /\ Become([World EXCEPT !.store = fallbackReply(@, response)])
  /\ rest' = rest - 1
  /\ UNCHANGED <<hist, now, pc>>

\* Mutant of sendMessageRejected: the catch block leaves the loading flag set
sendMessageRejected_keepsLoading(error) ==
  /\ pc = Idle
  /\ rest > 0
  /\ Become([World EXCEPT !.store = setError(@, handleApiError(error))])
  /\ rest' = rest - 1
  /\ UNCHANGED <<hist, now, pc>>

\* handleSendMessage after the await, the request rejected: the catch block
sendMessageRejected(error) ==
  /\ pc = Idle
  /\ rest > 0
  /\ Become([World EXCEPT !.store = setLoading(setError(@, handleApiError(error)), FALSE)])
  /\ rest' = rest - 1
  /\ UNCHANGED <<hist, now, pc>>

----------------------------------------------------------------------------
(* ConversationList *)

handleSelectConversation(conversation) ==
  /\ pc = Idle
  /\ Len(hist) < MaxHist
  /\ Become([World EXCEPT !.store = setCurrentConversation(@, conversation)])
  /\ hist' = Append(hist, conversation)
  /\ UNCHANGED <<rest, now, pc>>

\* handleSelectConversation after the await, the history loaded
historyFulfilled(i, messages) ==
  /\ pc = Idle
  /\ i \in DOMAIN hist
  /\ Len(messages) <= MaxMessages
  /\ Become([World EXCEPT !.store = setMessages(@, messages)])
  /\ hist' = RemoveAt(hist, i)
  /\ UNCHANGED <<rest, now, pc>>

\* handleSelectConversation after the await, the request rejected: logged only
historyRejected(i) ==
  /\ pc = Idle
  /\ i \in DOMAIN hist
  /\ Become(World)
  /\ hist' = RemoveAt(hist, i)
  /\ UNCHANGED <<rest, now, pc>>

----------------------------------------------------------------------------
(* Events of the browser and the server *)

\* The handshake of socket s succeeds: open event
SocketOpen(s) ==
  /\ pc = Idle
  /\ socks[s].readyState = "CONNECTING"
  /\ Become(onopen([World EXCEPT !.socks[s].readyState = "OPEN", !.socks[s].est = TRUE]))
  /\ UNCHANGED <<rest, hist, now, pc>>

\* The connection of socket s fails or is lost (also: it was closed before it
\* was established): the socket is CLOSED, an error event is fired and the
\* close event, code 1006, follows in the same task
SocketFail(s) ==
  /\ pc = Idle
  /\ socks[s].readyState \in {"CONNECTING", "OPEN", "CLOSING"}
  /\ Len(timers) < MaxTimers
  /\ BecomeKeeping(onerror([World EXCEPT !.socks[s].readyState = "CLOSED"]), s)
  /\ pc' = [Idle EXCEPT !.k = "close", !.s = s]
  /\ UNCHANGED <<rest, hist, now>>

SocketFailClose ==
  /\ pc.k = "close"
  /\ Become(onclose(World, AbnormalClosure))
  /\ pc' = Idle
  /\ UNCHANGED <<rest, hist, now>>

\* The closing handshake of an established socket completes: close event with the
\* code of the Close frame, the server's on an OPEN socket, 1000 after close(1000)
SocketClose(s, code) ==
  /\ pc = Idle
  /\ code \in CleanCodes
  /\ \/ socks[s].readyState = "OPEN"
     \/ socks[s].readyState = "CLOSING" /\ socks[s].est /\ code = NormalClosure
  /\ Len(timers) < MaxTimers
  /\ Become(onclose([World EXCEPT !.socks[s].readyState = "CLOSED"], code))
  /\ UNCHANGED <<rest, hist, now, pc>>

\* A frame arrives on socket s: message event
SocketMessage(s, frame) ==
  /\ pc = Idle
  /\ socks[s].readyState = "OPEN"
  /\ frame.message.kind = "object" => Len(store.messages) < MaxMessages
  /\ Become(onmessage(World, frame))
  /\ UNCHANGED <<rest, hist, now, pc>>

\* The i-th pending timer fires
TimerFire(i) ==
  /\ pc = Idle
  /\ i \in DOMAIN timers
  /\ hasFreeSlot(socks)
  /\ Become(reconnectTimeout([World EXCEPT !.timers = RemoveAt(@, i)]))
  /\ UNCHANGED <<rest, hist, now, pc>>

----------------------------------------------------------------------------
(* Specifications *)

Lifecycle ==
  \/ Mount
  \/ Unmount
  \/ handleNewChat
  \/ handleRetry

Network ==
  \/ \E s \in DOMAIN socks : SocketOpen(s)
  \/ \E s \in DOMAIN socks : SocketFail(s)
  \/ SocketFailClose
  \/ \E s \in DOMAIN socks, c \in CleanCodes : SocketClose(s, c)
  \/ \E i \in DOMAIN timers : TimerFire(i)

Chat ==
  \/ dismissError
  \/ \E m \in Inputs, t \in Clock : t >= now /\ handleSendMessage(m, t)
  \/ handleSendMessageDispatch
  \/ \E r \in ChatResponses : sendMessageFulfilled(r)
  \/ \E e \in ApiErrors : sendMessageRejected(e)
  \/ \E c \in ConvIds : handleSelectConversation(c)
  \/ \E i \in DOMAIN hist : \E h \in Histories(hist[i]) : historyFulfilled(i, h)
  \/ \E i \in DOMAIN hist : historyRejected(i)
  \/ \E s \in DOMAIN socks, f \in Frames : SocketMessage(s, f)

Next == Lifecycle \/ Network \/ Chat

Spec == Init /\ [][Next]_vars

\* The transport alone: the component's lifecycle and the events of the sockets
\* and timers, no chat traffic
NextTransport == Lifecycle \/ Network

SpecTransport == Init /\ [][NextTransport]_vars

\* The chat traffic of a mounted ChatInterface over a transport whose sockets
\* open and close normally; no conversation is picked from the sidebar
NextChat ==
  \/ Mount
  \/ handleNewChat
  \/ handleRetry
  \/ dismissError
  \/ \E m \in Inputs, t \in Clock : t >= now /\ handleSendMessage(m, t)
  \/ handleSendMessageDispatch
  \/ \E r \in ChatResponses : sendMessageFulfilled(r)
  \/ \E e \in ApiErrors : sendMessageRejected(e)
  \/ \E s \in DOMAIN socks, f \in Frames : SocketMessage(s, f)
  \/ \E s \in DOMAIN socks : SocketOpen(s)
  \/ \E s \in DOMAIN socks : SocketClose(s, NormalClosure)

SpecChat == Init /\ [][NextChat]_vars

\* The store of a mounted ChatInterface under submissions, replies on either
\* channel and conversations picked from the sidebar, over one connection that
\* stays open
NextStore ==
  \/ Mount
  \/ handleNewChat
  \/ \E s \in DOMAIN socks : SocketOpen(s)
  \/ \E m \in Inputs, t \in Clock : t >= now /\ handleSendMessage(m, t)
  \/ handleSendMessageDispatch
  \/ \E r \in ChatResponses : sendMessageFulfilled(r)
  \/ \E e \in ApiErrors : sendMessageRejected(e)
  \/ \E c \in ConvIds : handleSelectConversation(c)
  \/ \E i \in DOMAIN hist : \E h \in Histories(hist[i]) : historyFulfilled(i, h)
  \/ \E i \in DOMAIN hist : historyRejected(i)
  \/ \E s \in DOMAIN socks, f \in ChatResponseFrames : SocketMessage(s, f)

SpecStore == Init /\ [][NextStore]_vars

\* The frames a mounted ChatInterface receives in one session, over connections
\* that open, are closed normally and are retried by hand
NextFrames ==
  \/ Mount
  \/ handleRetry
  \/ \E m \in Inputs, t \in Clock : t >= now /\ handleSendMessage(m, t)
  \/ handleSendMessageDispatch
  \/ \E r \in ChatResponses : sendMessageFulfilled(r)
  \/ \E e \in ApiErrors : sendMessageRejected(e)
  \/ \E s \in DOMAIN socks, f \in Frames : SocketMessage(s, f)
  \/ \E s \in DOMAIN socks : SocketOpen(s)
  \/ \E s \in DOMAIN socks : SocketClose(s, NormalClosure)

SpecFrames == Init /\ [][NextFrames]_vars

\* The same under the scheduling of the event loop and of the network: the
\* dispatch of a submission follows its first half, a fallback request is
\* answered or fails, a connecting socket opens, and the server answers a
\* submission for as long as a connection stays open.  Nothing obliges the user
\* to act or the server to keep a connection open.
ReplyFrames ==
  { f \in ChatResponseFrames : f.message.kind = "object" } \cup ErrorFrames

ServerReplies ==
  \E s \in DOMAIN socks, f \in ReplyFrames : store.isLoading /\ SocketMessage(s, f)

RequestSettles ==
  \/ \E r \in ChatResponses : sendMessageFulfilled(r)
  \/ \E e \in ApiErrors : sendMessageRejected(e)

SpecLive ==
  /\ Init
  /\ [][NextFrames]_vars
  /\ WF_vars(handleSendMessageDispatch)
  /\ WF_vars(RequestSettles)
  /\ WF_vars(\E s \in DOMAIN socks : SocketOpen(s))
  /\ WF_vars(ServerReplies)

----------------------------------------------------------------------------
(* Vocabulary of the properties *)

\* This step delivers a close event with this code
ClosesWith(code) ==
  \/ code \in CleanCodes /\ \E s \in DOMAIN socks : SocketClose(s, code)
  \/ code = AbnormalClosure /\ SocketFailClose

\* This step schedules a reconnect: one more timer is pending
SchedulesReconnect == Len(timers') = Len(timers) + 1

\* This step creates a WebSocket object
CreatesSocket ==
  \E s \in DOMAIN socks :
    socks'[s].readyState = "CONNECTING" /\ socks[s].readyState # "CONNECTING"

\* The delays the backoff policy prescribes, by attempt
BackoffDelays == <<1000, 2000, 4000, 8000, 16000>>

----------------------------------------------------------------------------
(* C1 *)

\* C1 as stated: every close with a code other than 1000 schedules a reconnect,
\* and no close with code 1000 does.
C1_AsStated ==
  [][\A code \in CloseCodes :
       ClosesWith(code) => (SchedulesReconnect <=> code # 1000)]_vars

\* C1, amended: a close schedules a reconnect exactly when its code is not 1000,
\* the reconnect-attempt counter is below 5 and the transport has a session id
\* (no disconnect() since the last connect).
C1_CloseSchedulesReconnect ==
  [][\A code \in CloseCodes :
       ClosesWith(code) =>
         (SchedulesReconnect <=> /\ code # 1000
                                 /\ ws.reconnectAttempts < 5
                                 /\ ws.sessionId # Null)]_vars

\* A reconnect is pending after an abnormal close of the current socket
C1_Witness ==
  /\ pc = Idle
  /\ timers # <<>>
  /\ ws.reconnectAttempts >= 1
  /\ ws.socket # Null
  /\ socks[ws.socket].readyState = "CLOSED"

----------------------------------------------------------------------------
(* C2 *)

\* C2: the reconnect scheduled when the counter stands at n (n = 0..4, the number
\* of abnormal closes since the counter was last 0) has delay 1000, 2000, 4000,
\* 8000, 16000 ms for n = 0, 1, 2, 3, 4, the counter is n + 1 once it is
\* scheduled, and an abnormal close with the counter at 5 schedules nothing.
C2_BackoffDelays ==
  [][/\ SchedulesReconnect =>
          /\ ws.reconnectAttempts < 5
          /\ ws'.reconnectAttempts = ws.reconnectAttempts + 1
          /\ timers'[Len(timers')].delay = BackoffDelays[ws'.reconnectAttempts]
     /\ \A code \in CloseCodes \ {1000} :
          ClosesWith(code) /\ ws.sessionId # Null =>
            IF ws.reconnectAttempts < 5
            THEN SchedulesReconnect
            ELSE timers' = timers /\ ws'.reconnectAttempts = 5]_vars

\* The fifth reconnect, delay 16000 ms, was made and its socket failed to
\* connect: the sixth abnormal close left nothing pending
C2_Witness ==
  /\ pc = Idle
  /\ ws.reconnectAttempts = 5
  /\ timers = <<>>
  /\ ws.socket # Null
  /\ socks[ws.socket].readyState = "CLOSED"
  /\ ~socks[ws.socket].est

----------------------------------------------------------------------------
(* C3 *)

\* C3 as stated: a timer that was pending when disconnect() was called never
\* makes a connection attempt.
C3_AsStated ==
  [][\A i \in DOMAIN timers :
       TimerFire(i) /\ timers[i].disc => ~CreatesSocket]_vars

----------------------------------------------------------------------------
(* C4 *)

\* This step calls connect (from handleRetry, from a reconnect timer or from the
\* effect on mount) while this.socket is CONNECTING
ConnectWhileConnecting ==
  /\ ws.socket # Null
  /\ socks[ws.socket].readyState = "CONNECTING"
  /\ \/ handleRetry /\ ui.connectionStatus = "disconnected"
     \/ \E i \in DOMAIN timers : TimerFire(i) /\ ws.sessionId # Null
     \/ Mount

\* C4 as stated: connect called while the connection is Connecting creates no
\* socket.
C4_AsStated == [][ConnectWhileConnecting => ~CreatesSocket]_vars

----------------------------------------------------------------------------
(* C5 *)

\* C5 as stated: a timer that was pending when connect was called never fires a
\* connection attempt that closes or replaces the connection that call made.
C5_AsStated ==
  [][\A i \in DOMAIN timers :
       LET c == timers[i].conn
       IN /\ TimerFire(i)
          /\ c # Null
          /\ ws.socket = c
          /\ socks[c].readyState \in {"CONNECTING", "OPEN"}
          => /\ ws'.socket = c
             /\ socks'[c].readyState = socks[c].readyState]_vars

----------------------------------------------------------------------------
(* C6 *)

\* This step is the dispatch of a submission made while the transport is not open
FallbackDispatch == handleSendMessageDispatch /\ ~isConnected(World)

\* C6: a submission made while the transport is not open issues exactly one
\* fallback request (one POST, carrying the submitted content, and no socket
\* frame), and the fulfilment of that request answers exactly one request and
\* adds exactly one message, the reply, to the store.
C6_OneFallbackOneReply ==
  [][/\ FallbackDispatch =>
          /\ rest' = rest + 1
          /\ Len(outbox') = 1
          /\ outbox'[1].via = "post"
          /\ outbox'[1].message = pc.content
          /\ store'.messages = store.messages
     /\ \A r \in ChatResponses :
          sendMessageFulfilled(r) =>
            /\ rest' = rest - 1
            /\ store'.messages = Append(store.messages, asMessage(r.message))
            /\ outbox' = <<>>]_vars

\* The reply of a fallback request stands after the optimistic message, the
\* request is answered and no socket of this session was ever open
C6_Witness ==
  /\ pc = Idle
  /\ rest = 0
  /\ ~store.isLoading
  /\ Len(store.messages) = 2
  /\ store.messages[1].role = "user"
  /\ store.messages[2].role = "assistant"
  /\ store.sessionId = 1
  /\ \A s \in DOMAIN socks : ~socks[s].est

----------------------------------------------------------------------------
(* C7 *)

\* C7 as stated: when a chat_response carrying a reply and a conversation c
\* arrives while the store has no current conversation and the optimistic message
\* of a submission sent over the socket, still awaiting its reply, is in the
\* store, then afterwards c is the current conversation and the messages
\* resolved for display hold both the optimistic message and the reply.
C7_AsStated ==
  [][\A s \in DOMAIN socks, f \in ChatResponseFrames :
       /\ SocketMessage(s, f)
       /\ f.message.kind = "object"
       /\ f.conversation # NoConv
       /\ store.currentConversation = NoConv
       /\ store.isLoading
       /\ rest = 0
       /\ store.messages # <<>>
       /\ store.messages[Len(store.messages)].role = "user"
       => LET optimistic == store.messages[Len(store.messages)]
              shown      == getCurrentMessages(store')
          IN /\ store'.currentConversation = f.conversation
             /\ \E i \in DOMAIN shown :
                  shown[i].id = optimistic.id /\ shown[i].role = "user"
             /\ \E i \in DOMAIN shown :
                  shown[i].id = f.message.id /\ shown[i].role = "assistant"]_vars

----------------------------------------------------------------------------
(* C8 *)

\* C8 as stated: after any chat_response frame (message and conversation both
\* optional) and after any error frame has been received, the assistant is not
\* shown as typing.
C8_AsStated ==
  [][\A s \in DOMAIN socks, f \in ChatResponseFrames \cup ErrorFrames :
       SocketMessage(s, f) => ~store'.isTyping]_vars

----------------------------------------------------------------------------
(* C9 *)

\* C9: the receipt of a frame that is not valid JSON, or that has no type tag,
\* changes nothing: the service (socket, callbacks, reconnect counter, session
\* id, connecting flag), the sockets, the timers, the store, the component's
\* connection status and the requests in flight are as before, the task that
\* received it goes on to completion, and it puts nothing on the network.
C9_MalformedDropped ==
  [][\A s \in DOMAIN socks, f \in MalformedFrames :
       SocketMessage(s, f) =>
         /\ UNCHANGED <<ws, socks, timers, store, ui, rest, hist, now>>
         /\ pc' = Idle
         /\ \A i \in DOMAIN outbox' : outbox'[i].via = "console"]_vars

\* A frame that is not valid JSON has just been dropped, and its parse error
\* logged, while a submission awaits its reply and the assistant is typing
C9_Witness ==
  /\ pc = Idle
  /\ outbox = <<ParseErrorLogged>>
  /\ store.isTyping
  /\ store.isLoading
  /\ store.messages # <<>>
  /\ isConnected(World)

----------------------------------------------------------------------------
(* C10 *)

\* C10: an accepted submission (non-blank content, no submission in progress)
\* appends to the store the user message with the submitted content, the value
\* of Date.now() as id and the current conversation's id, 0 when there is none,
\* and puts nothing on the network while doing so; the frame or the fallback
\* request goes out in the step after, when that message is the last of the store.
C10_OptimisticInsertFirst ==
  [][/\ \A m \in Inputs, t \in Clock :
          handleSendMessage(m, t) /\ trim(m) # <<>> /\ ~store.isLoading =>
            /\ store'.messages =
                 Append(store.messages,
                        [id |-> t,
                         conversation_id |-> IF store.currentConversation = NoConv
                                             THEN 0 ELSE store.currentConversation,
                         content |-> m, role |-> "user"])
            /\ outbox' = <<>>
            /\ rest' = rest
            /\ pc'.k = "send"
     /\ handleSendMessageDispatch =>
          /\ outbox = <<>>
          /\ store.messages # <<>>
          /\ store.messages[Len(store.messages)].role = "user"
          /\ store.messages[Len(store.messages)].content = pc.content
          /\ store.messages[Len(store.messages)].id = now
          /\ store'.messages = store.messages
          /\ Len(outbox') <= 1
          /\ \A i \in DOMAIN outbox' : outbox'[i].message = pc.content]_vars

\* The optimistic message of a conversation is in the store and neither the
\* frame nor the fallback request has gone out yet
C10_Witness ==
  /\ pc.k = "send"
  /\ outbox = <<>>
  /\ rest = 0
  /\ Len(store.messages) = 1
  /\ store.messages[1].role = "user"
  /\ store.messages[1].conversation_id = store.currentConversation
  /\ store.currentConversation # NoConv
  /\ store.messages[1].id = now

----------------------------------------------------------------------------
(* C11 *)

\* This step delivers the close event, code 1006, of a failed connection while
\* the transport holds a session and its reconnect-attempt counter stands at 5
ExhaustedClose ==
  /\ SocketFailClose
  /\ ws.sessionId # Null
  /\ ws.reconnectAttempts = 5

\* C11 as stated: an abnormal close with the counter at 5 schedules no reconnect
\* and reports to the sink something other than the ordinary disconnected event:
\* the store and the component are not left as onDisconnect alone leaves them.
C11_AsStated ==
  [][ExhaustedClose =>
       /\ timers' = timers
       /\ <<store', ui'>> # <<onDisconnect(World).store, onDisconnect(World).ui>>]_vars

----------------------------------------------------------------------------
(* C12 *)

\* C12: in every reachable state, disconnect() leaves the service without a
\* socket, with the reconnect-attempt counter at 0 and the connecting flag
\* cleared, and calls close on no socket but the one the service held; a second
\* disconnect() changes nothing, and neither does a disconnect() on a service
\* that holds no socket and no session (never connected, or disconnected).
C12_DisconnectIdempotent ==
  LET D == disconnect(World)
  IN /\ D.ws.socket = Null
     /\ D.ws.reconnectAttempts = 0
     /\ ~D.ws.isConnecting
     /\ \A s \in DOMAIN socks : D.socks[s] # socks[s] => s = ws.socket
     /\ disconnect(D) = D
     /\ ws.socket = Null /\ ws.sessionId = Null => D = World

\* disconnect() was called on a service whose socket was open and whose counter
\* was not 0: the socket is closing, a reconnect timer it found is still pending
C12_Witness ==
  /\ pc = Idle
  /\ ~ui.mounted
  /\ ws.socket = Null
  /\ ws.reconnectAttempts = 0
  /\ \E s \in DOMAIN socks : socks[s].readyState = "CLOSING" /\ socks[s].est
  /\ \E i \in DOMAIN timers : timers[i].disc

----------------------------------------------------------------------------
(* C13 *)

\* C13: in every reachable state in which the service has no socket or its
\* socket is not OPEN, sendMessage throws the not-connected error, hands no
\* frame to any socket and leaves the service (socket, counter, callbacks,
\* session id, connecting flag), the sockets and the timers as they were.
C13_SendNotConnected ==
  \A m \in Inputs, c \in {NoConv} \cup ConvIds :
    LET r == sendMessage(World, m, c)
    IN ~isConnected(World) =>
         /\ r.threw
         /\ r.S.outbox = <<>>
         /\ r.S = World
         /\ handleApiError(NotConnectedError) = "WebSocket is not connected"

\* The service holds a socket that was open and whose connection was lost, and a
\* send on it throws
C13_Witness ==
  /\ pc = Idle
  /\ ui.mounted
  /\ ws.socket # Null
  /\ socks[ws.socket].readyState = "CLOSED"
  /\ socks[ws.socket].est
  /\ sendMessage(World, <<" ", "y">>, NoConv).threw

----------------------------------------------------------------------------
(* C14 *)

\* This step calls connect (from a reconnect timer or from handleRetry) while
\* this.socket is OPEN
ConnectWhileOpen ==
  /\ ws.socket # Null
  /\ socks[ws.socket].readyState = "OPEN"
  /\ \/ handleRetry /\ ui.connectionStatus = "disconnected"
     \/ \E i \in DOMAIN timers : TimerFire(i) /\ ws.sessionId # Null

\* This step delivers the close event of socket s
ClosesSocket(s) ==
  \/ SocketClose(s, NormalClosure)
  \/ SocketFailClose /\ pc.s = s

\* C14 as stated: connect called while this.socket is OPEN makes that socket
\* start closing and makes a new, connecting socket the service's socket; and the
\* close event of a socket so replaced schedules no reconnect and leaves the
\* service's socket and its state as they are.
C14_AsStated ==
  [][/\ ConnectWhileOpen =>
          /\ socks'[ws.socket].readyState = "CLOSING"
          /\ ws'.socket # ws.socket
          /\ socks'[ws'.socket].readyState = "CONNECTING"
     /\ \A s \in DOMAIN socks :
          ClosesSocket(s) /\ socks[s].rep =>
            /\ timers' = timers
            /\ ws'.socket = ws.socket
            /\ ws.socket # Null =>
                 socks'[ws.socket].readyState = socks[ws.socket].readyState]_vars

----------------------------------------------------------------------------
(* C15 *)

\* C15: when the fallback request of a submission is rejected, the store's error
\* field holds the one message handleApiError derives from the rejection (the
\* server's detail, else the error's own message), the messages of the store,
\* the optimistic one among them, are as they were, and the loading flag is
\* cleared; a step that hands a frame to the open socket reports no error.
C15_SendFailureSurfaced ==
  [][/\ \A e \in ApiErrors :
          sendMessageRejected(e) =>
            /\ store'.error = handleApiError(e)
            /\ store'.error = (IF e.detail # "" THEN e.detail ELSE e.emsg)
            /\ store'.error \notin {Undefined, ""}
            /\ store'.messages = store.messages
            /\ ~store'.isLoading
            /\ rest' = rest - 1
     /\ handleSendMessageDispatch =>
          /\ store'.messages = store.messages
          /\ store'.error = store.error
          /\ store'.isLoading]_vars

\* The fallback request of a submission was rejected with a network error: the
\* error is shown, the optimistic message is still the store's only message and
\* a resend is possible
C15_Witness ==
  /\ pc = Idle
  /\ rest = 0
  /\ store.error = "Network Error"
  /\ ~store.isLoading
  /\ Len(store.messages) = 1
  /\ store.messages[1].role = "user"

----------------------------------------------------------------------------
(* C16 *)

\* The chat_response frame that carries the reply of a fallback response
asFrame(response) ==
  Frame("object", "chat_response", response.message, response.conversation, "")

\* C16 as stated: in every reachable state in which the connection is open with
\* the callbacks of the effect installed, every server reply that carries a
\* message and its conversation (the store's current conversation, or any
\* conversation when the store has none) leaves the store the same whether it is
\* delivered as the response of the fallback request or as a chat_response frame.
C16_AsStated ==
  \A r \in ChatResponses :
    /\ pc = Idle
    /\ isConnected(World)
    /\ ws.callbacks.kind = "mount"
    /\ r.conversation # NoConv
    /\ store.currentConversation \in {NoConv, r.conversation}
    => fallbackReply(store, r) = onmessage(World, asFrame(r)).store

----------------------------------------------------------------------------
(* C17 *)

\* The messages of sequence q filed under conversation c
MessagesOf(q, c) == SelectSeq(q, LAMBDA m : m.conversation_id = c)

\* C17 as stated: a step that makes conversation c the current one through
\* setCurrentConversation (a conversation picked from the sidebar) keeps every
\* message of the store, and the messages shown afterwards are those of the
\* store's messages that are filed under c.
C17_AsStated ==
  [][\A c \in ConvIds :
       handleSelectConversation(c) =>
         /\ \A i \in DOMAIN store.messages :
              \E j \in DOMAIN store'.messages : store'.messages[j] = store.messages[i]
         /\ getCurrentMessages(store') = MessagesOf(store.messages, c)]_vars

----------------------------------------------------------------------------
(* C18 *)

\* C18 as stated: in every reachable state no two messages of the store have the
\* same id.
C18_AsStated ==
  \A i, j \in DOMAIN store.messages :
    i # j => store.messages[i].id # store.messages[j].id

----------------------------------------------------------------------------
(* C19 *)

\* Socket s was opened for a session other than the one the service now serves
OfOldSession(s) ==
  /\ ws.sessionId # Null
  /\ s # ws.socket
  /\ socks[s].readyState # "NONE"
  /\ socks[s].sid # ws.sessionId

\* This step delivers an error or a close event of socket s
ErrorOrCloseOf(s) ==
  \/ SocketClose(s, NormalClosure)
  \/ SocketFail(s)
  \/ SocketFailClose /\ pc.s = s

\* C19 as stated: an error or close event of a socket of an earlier session
\* reaches no callback of the new session's sink (store and component unchanged)
\* and leaves the service (socket, callbacks, reconnect counter, session id,
\* connecting flag) and the pending reconnects as they are.
C19_AsStated ==
  [][\A s \in DOMAIN socks :
       OfOldSession(s) /\ ErrorOrCloseOf(s) =>
         UNCHANGED <<ws, store, ui, timers>>]_vars

----------------------------------------------------------------------------
(* C20 *)

\* C20 as stated: the error event of a socket reports one generic error to the
\* sink and changes nothing in the service (socket, callbacks, reconnect counter,
\* session id, connecting flag); no reconnect is scheduled by it.
C20_AsStated ==
  [][\A s \in DOMAIN socks :
       SocketFail(s) =>
         /\ store' = onError(World, "WebSocket connection error").store
         /\ ws' = ws
         /\ timers' = timers]_vars

\* C20, amended: the error event of a socket reports one generic error to the
\* sink and clears the connecting flag; it changes nothing else in the service
\* (socket, callbacks, reconnect counter, session id), calls close on no socket,
\* leaves the component's connection status alone and schedules no reconnect:
\* that is left to the close event, which follows in the same task.
C20_ErrorEventEffect ==
  [][\A s \in DOMAIN socks :
       SocketFail(s) =>
         /\ store' = onError(World, "WebSocket connection error").store
         /\ ws' = [ws EXCEPT !.isConnecting = FALSE]
         /\ timers' = timers
         /\ socks' = [socks EXCEPT ![s].readyState = "CLOSED"]
         /\ ui' = ui
         /\ pc'.k = "close"
         /\ pc'.s = s]_vars

\* The error event of the service's connecting socket has been delivered and
\* its close event has not: the error is in the store, the connecting flag is
\* cleared, the counter is 0 and nothing is scheduled
C20_Witness ==
  /\ pc.k = "close"
  /\ pc.s = ws.socket
  /\ ~socks[pc.s].est
  /\ ws.callbacks.kind = "mount"
  /\ store.error = "WebSocket connection error"
  /\ ~ws.isConnecting
  /\ ws.reconnectAttempts = 0
  /\ timers = <<>>

----------------------------------------------------------------------------
(* C21 *)

\* C21 as stated: in every reachable state in which the connection is open with
\* the callbacks of the effect installed and the store has a current
\* conversation, the message of a chat_response arriving then is appended to the
\* store's messages under the id of that conversation, whatever conversation id
\* the payload carries.
C21_AsStated ==
  \A m \in ObjectMessages :
    /\ pc = Idle
    /\ isConnected(World)
    /\ ws.callbacks.kind = "mount"
    /\ store.currentConversation # NoConv
    => onMessage(World, asMessage(m)).store.messages =
         Append(store.messages,
                [asMessage(m) EXCEPT !.conversation_id = store.currentConversation])

----------------------------------------------------------------------------
(* C22 *)

\* C22: the open event of a socket sets the reconnect-attempt counter to 0,
\* clears the connecting flag and calls the sink's onConnect once (store and
\* component are as onConnect leaves them), and schedules nothing; and an
\* abnormal close that finds the counter at 0 while the service holds a session
\* schedules its reconnect with a delay of 1000 ms and makes the counter 1, the
\* first of five attempts.
C22_OpenResetsCounter ==
  [][/\ \A s \in DOMAIN socks :
          SocketOpen(s) =>
            /\ ws' = [ws EXCEPT !.reconnectAttempts = 0, !.isConnecting = FALSE]
            /\ socks'[s].readyState = "OPEN"
            /\ store' = onConnect(World).store
            /\ ui' = onConnect(World).ui
            /\ timers' = timers
     /\ ClosesWith(AbnormalClosure) /\ ws.reconnectAttempts = 0 /\ ws.sessionId # Null =>
          /\ SchedulesReconnect
          /\ timers'[Len(timers')].delay = 1000
          /\ ws'.reconnectAttempts = 1
          /\ ws'.reconnectAttempts + 4 = maxReconnectAttempts]_vars

\* A reconnect scheduled as the second attempt (2000 ms) is still pending, a
\* connection made since was open and was lost, and the reconnect scheduled for
\* it is a first attempt again: 1000 ms, counter 1
C22_Witness ==
  /\ pc = Idle
  /\ Len(timers) = 2
  /\ timers[1].delay = 2000
  /\ timers[2].delay = 1000
  /\ ws.reconnectAttempts = 1
  /\ ws.socket # Null
  /\ socks[ws.socket].est
  /\ socks[ws.socket].readyState = "CLOSED"

----------------------------------------------------------------------------
(* C23 *)

\* C23 as stated: the receipt of an error frame puts an error into the store and
\* leaves the store neither typing nor loading, and it changes nothing in the
\* connection: the sockets (the receiving one stays OPEN), the service with its
\* reconnect-attempt counter and the pending reconnects are as before.
C23_AsStated ==
  [][\A s \in DOMAIN socks, f \in ErrorFrames :
       SocketMessage(s, f) =>
         /\ store'.error # Undefined
         /\ ~store'.isTyping
         /\ ~store'.isLoading
         /\ socks' = socks
         /\ socks'[s].readyState = "OPEN"
         /\ ws' = ws
         /\ timers' = timers]_vars

----------------------------------------------------------------------------
(* C24 *)

\* C24: a frame is received only on the service's own socket, and the receipt of
\* a frame that parses to an object with a known type leaves the store as the
\* callbacks of the installed bag leave it, called in this order with these
\* arguments: for a chat_response, onMessage with the message object as the
\* payload has it (same id, same conversation id) and then onConversationUpdate
\* with the conversation, each only if the field is present; for a typing frame,
\* onTypingStart or onTypingStop by its status; for an error frame, onError with
\* the frame's message string.  Nothing else changes: the service, the sockets,
\* the timers, the component and the requests in flight are as before.
C24_FramesForwarded ==
  [][\A s \in DOMAIN socks, f \in ChatResponseFrames \cup TypingFrames \cup ErrorFrames :
       SocketMessage(s, f) =>
         LET W   == World
             msg == [id |-> f.message.id, conversation_id |-> f.message.conversation_id,
                     content |-> AssistantContent, role |-> "assistant"]
             S1  == IF f.message.kind = "object" THEN onMessage(W, msg) ELSE W
             S2  == IF f.conversation # NoConv
                    THEN onConversationUpdate(S1, f.conversation)
                    ELSE S1
         IN /\ s = ws.socket
            /\ f.type = "chat_response" => store' = S2.store
            /\ f.type = "typing" /\ f.status = "started" => store' = onTypingStart(W).store
            /\ f.type = "typing" /\ f.status = "stopped" => store' = onTypingStop(W).store
            /\ f.type = "error" /\ f.message.kind = "string" =>
                 store' = onError(W, "Server error text").store
            /\ UNCHANGED <<ws, socks, timers, ui, rest, hist, now, pc>>
            /\ outbox' = <<>>]_vars

\* A chat_response with a message and a conversation was received in reply to a
\* submission made when the store had no current conversation: onMessage added
\* the reply and cleared the loading flag, then onConversationUpdate made the
\* conversation current, which emptied the messages
C24_Witness ==
  /\ pc = Idle
  /\ isConnected(World)
  /\ ws.callbacks = [kind |-> "mount", cc |-> NoConv]
  /\ store.sessionId = 1
  /\ now = Epoch + 1
  /\ rest = 0
  /\ store.currentConversation # NoConv
  /\ store.messages = <<>>
  /\ ~store.isLoading
  /\ store.error = Undefined

----------------------------------------------------------------------------
(* C25 *)

\* C25 as stated: the receipt of a chat_response that carries a conversation
\* makes that conversation the current one if the store has no current
\* conversation, and leaves the current conversation as it is if the store has
\* one.
C25_AsStated ==
  [][\A s \in DOMAIN socks, f \in ChatResponseFrames :
       SocketMessage(s, f) /\ f.conversation # NoConv =>
         store'.currentConversation =
           IF store.currentConversation = NoConv
           THEN f.conversation
           ELSE store.currentConversation]_vars

----------------------------------------------------------------------------
(* C26 *)

\* This step is the dispatch of a submission made while the transport is open
SocketDispatch == handleSendMessageDispatch /\ isConnected(World)

\* This step appends an assistant message to the store's messages
AddsReply ==
  /\ Len(store'.messages) = Len(store.messages) + 1
  /\ store'.messages[Len(store'.messages)].role = "assistant"

\* C26: the dispatch of a submission made while the transport is open hands
\* exactly one frame to the service's socket, carrying the submitted content and
\* the id of the store's current conversation (none if there is none), posts no
\* fallback request and leaves the store, the optimistic message its last
\* message and the loading flag set, as it is; and with no fallback request in
\* flight the only step that appends an assistant message to the store is the
\* receipt of a chat_response frame that carries a message object.
C26_SocketSendOnly ==
  [][/\ SocketDispatch =>
          /\ outbox' = << [via |-> "socket", sock |-> ws.socket, message |-> pc.content,
                           conversation_id |-> store.currentConversation,
                           session_id |-> Null, use_rag |-> TRUE] >>
          /\ socks[ws.socket].readyState = "OPEN"
          /\ rest' = rest
          /\ store' = store
          /\ store.isLoading
          /\ store.messages[Len(store.messages)].content = pc.content
     /\ AddsReply /\ rest = 0 =>
          \E s \in DOMAIN socks, f \in ChatResponseFrames :
            SocketMessage(s, f) /\ f.message.kind = "object"]_vars

\* The frame of a submission made in a conversation has just been handed to the
\* open socket: no request is in flight and the optimistic message is the only
\* message of the store
C26_Witness ==
  /\ pc = Idle
  /\ Len(outbox) = 1
  /\ outbox[1].via = "socket"
  /\ outbox[1].message = <<" ", "y">>
  /\ outbox[1].conversation_id = store.currentConversation
  /\ store.currentConversation # NoConv
  /\ rest = 0
  /\ store.isLoading
  /\ Len(store.messages) = 1
  /\ store.messages[1].role = "user"

----------------------------------------------------------------------------
(* C27 *)

\* C27: in every reachable state the reconnect-attempt counter is an integer
\* from 0 to 5.
C27_CounterInRange ==
  ws.reconnectAttempts \in 0..maxReconnectAttempts

\* The counter stands at 5 with the fifth reconnect, 16000 ms, still pending, and
\* a connect call made by hand since has put a new socket in place
C27_Witness ==
  /\ pc = Idle
  /\ ws.reconnectAttempts = 5
  /\ Len(timers) = 1
  /\ timers[1].delay = 16000
  /\ ws.socket # Null
  /\ timers[1].conn = ws.socket
  /\ socks[ws.socket].readyState = "CONNECTING"

----------------------------------------------------------------------------
(* C28 *)

\* C28 as stated: in every reachable state at most one reconnect timer is
\* pending.
C28_AsStated == Len(timers) <= 1

----------------------------------------------------------------------------
(* C29 *)

\* The frame of a submission has just been handed to the open socket
SubmittedOverSocket ==
  /\ pc = Idle
  /\ Len(outbox) = 1
  /\ outbox[1].via = "socket"

\* C29 as stated: whenever a submission has been sent over the open socket, a
\* state follows in which the store is neither loading nor typing.
C29_AsStated ==
  SubmittedOverSocket ~> (~store.isLoading /\ ~store.isTyping)

----------------------------------------------------------------------------
(* C30 *)

\* C30 as stated: in every reachable state in which the connection made by
\* handleRetry is open, the receipt of a chat_response or of a typing frame
\* leaves the store as the receipt of the same frame leaves it under the
\* callbacks the effect installs on mount.
C30_AsStated ==
  \A f \in ChatResponseFrames \cup TypingFrames :
    /\ pc = Idle
    /\ isConnected(World)
    /\ ws.callbacks.kind = "retry"
    => onmessage(World, f).store =
         onmessage([World EXCEPT !.ws.callbacks = mountCallbacks(store)], f).store

----------------------------------------------------------------------------
(* C31 *)

\* C31 as stated: in every reachable state in which the frame of a submission
\* made in conversation A has just been handed to the open socket, the reply the
\* server files under A, when it arrives, is added to the store's messages under
\* A.
C31_AsStated ==
  \A f \in ChatResponseFrames :
    /\ SubmittedOverSocket
    /\ outbox[1].conversation_id # NoConv
    /\ f.message.kind = "object"
    /\ f.message.conversation_id = outbox[1].conversation_id
    /\ f.conversation \in {NoConv, outbox[1].conversation_id}
    => LET after == onmessage(World, f).store.messages
       IN Len(after) = Len(store.messages) + 1 =>
            after[Len(after)].conversation_id = outbox[1].conversation_id

----------------------------------------------------------------------------
(* C32 *)

\* No socket other than the service's own has an event left to deliver, and no
\* task is under way
EventsDelivered ==
  /\ pc = Idle
  /\ \A s \in DOMAIN socks :
       s # ws.socket => socks[s].readyState \in {"NONE", "CLOSED"}

\* C32 as stated: in every reachable state in which ChatInterface is mounted and
\* the events of all replaced sockets have been delivered, the component's
\* connection status is 'connected' exactly when the service's socket is OPEN.
C32_AsStated ==
  ui.mounted /\ EventsDelivered =>
    (ui.connectionStatus = "connected" <=> isConnected(World))

----------------------------------------------------------------------------
(* C33 *)

\* C33 as stated: after the step that accepts a submission (non-blank content,
\* no submission in progress), the user message just created is one of the
\* messages getCurrentMessages returns for display.
C33_AsStated ==
  [][\A m \in Inputs, t \in Clock :
       handleSendMessage(m, t) /\ trim(m) # <<>> /\ ~store.isLoading =>
         LET shown == getCurrentMessages(store')
         IN \E i \in DOMAIN shown :
              /\ shown[i].id = t
              /\ shown[i].content = m
              /\ shown[i].role = "user"]_vars

====
